---- MODULE Spec2Model ----
(***************************************************************************)
(* Two-stage stochastic sizing of wind and solar capacity                  *)
(* (scr/model.py, scr/main.py): scenario construction, the linear program  *)
(* built from the scenarios, the single solve call and the read-out of the *)
(* results.                                                                *)
(*                                                                         *)
(* Conventions.  A demand series is a sequence of integers (1-based here,  *)
(* 0-based in the source: source index i is element i+1).  alpha_cvar is   *)
(* held in hundredths (95 stands for 0.95).  Objective values are held as  *)
(* numerators over the common denominator num_scenarios * 10, so that      *)
(* sum/num_scenarios + 0.3 * max is an integer.                            *)
(***************************************************************************)
EXTENDS Integers, Sequences, FiniteSets, TLC

VARIABLES
    pc,                \* "start", "built", "solved", "done", "failed"
    data_df,           \* the "demand" column of the data frame
    num_scenarios,     \* argument of build_two_stage_model
    alpha_cvar,        \* argument of build_two_stage_model, in hundredths
    demand_scenarios,  \* the local list built at model.py:29-34
    model,             \* the ConcreteModel returned by build_two_stage_model
    error,             \* the exception that ended the run, or "none"
    solver_calls,      \* number of solver.solve invocations
    results,           \* the results object returned by solve_model
    values,            \* the variable values loaded into the model by the solver
    values_read,       \* whether main has read variable values
    report             \* what main printed

vars == <<pc, data_df, num_scenarios, alpha_cvar, demand_scenarios, model,
          error, solver_calls, results, values, values_read, report>>

----------------------------------------------------------------------------
\* Bounds of the model.

MaxLen == 2
MaxLenBuild == 5
MaxDemand == 1
MaxScenarios == 2

\* Program constants.

cost_of_wind == 1000
cost_of_solar == 800
penalty_of_load_shed == 2000
lambda_risk_num == 3
lambda_risk_den == 10

DemandValues == 0..MaxDemand
NumScenariosValues == -1..MaxScenarios
AlphaValues == {-50, 0, 95, 100}
SlackValues == {-1, 0, 1}

SeriesUpTo(n) == UNION {[1..k -> DemandValues] : k \in 0..n}

NoModel == [none |-> TRUE]
NoValues == [none |-> TRUE]
NoResults == [none |-> TRUE]
NoReport == [none |-> TRUE]

----------------------------------------------------------------------------
\* Python and pandas primitives used by the source.

Min2(a, b) == IF a <= b THEN a ELSE b

\* a // b for a >= 0 and b # 0: floor of the quotient.
PyFloorDiv(a, b) ==
    IF b > 0 THEN a \div b ELSE 0 - ((a + (0 - b) - 1) \div (0 - b))

RECURSIVE SumOver(_, _)
SumOver(f, S) ==
    IF S = {} THEN 0
    ELSE LET e == CHOOSE e \in S : TRUE
         IN f[e] + SumOver(f, S \ {e})

MaxOf(S) == CHOOSE m \in S : \A k \in S : k <= m

MinOf(S) == CHOOSE m \in S : \A k \in S : m <= k

----------------------------------------------------------------------------
\* build_two_stage_model: scenario construction.

\* The row positions (0-based) that df.iloc[a:b] selects.
iloc_rows(len, a, b) ==
    LET lo == Min2(a, len)
        hi == Min2(b, len)
    IN [k \in 1..(hi - lo) |-> lo + k - 1]

scenario_rows_overlap(df, i, chunk_size) ==
    iloc_rows(Len(df), i, i + chunk_size)

\* scenario_data = data_df.iloc[i*chunk_size : (i+1)*chunk_size], as the row
\* positions of data_df it holds.
scenario_rows(df, i, chunk_size) ==
    iloc_rows(Len(df), i * chunk_size, (i + 1) * chunk_size)

\* scenario_data["demand"].values
scenario_data(df, i, chunk_size) ==
    LET rows == scenario_rows(df, i, chunk_size)
    IN [k \in DOMAIN rows |-> df[rows[k] + 1]]

\* The loop of model.py:32-34; range(num_scenarios) is empty for
\* num_scenarios <= 0.
build_demand_scenarios(df, n, chunk_size) ==
    [i \in 0..(n - 1) |-> scenario_data(df, i, chunk_size)]

\* max(model.excess_cost[s] for s in range(num_scenarios)) applies Python's
\* builtin max to Pyomo variables.  With no scenario it raises ValueError; with
\* one it returns that variable without comparing; with more it compares two
\* variables and takes the truth value of the resulting relational expression:
\* Pyomo either raises there, or (releases with chained inequalities) answers
\* True to every comparison, so that max returns the last variable.
python_max(n) ==
    IF n <= 0 THEN {[error |-> "ValueError", term |-> -1]}
    ELSE IF n = 1 THEN {[error |-> "none", term |-> 0]}
    ELSE {[error |-> "PyomoException", term |-> -1],
          [error |-> "none", term |-> n - 1]}

\* The model object: index sets, the demand parameter and the objective
\* expression avg_cost + lambda_risk * max_cost, where max_cost is the one
\* variable python_max returned.
make_model(scen, n, chunk_size, term) ==
    LET S == 0..(n - 1)
        T == 0..(chunk_size - 1)
    IN [SCENARIOS |-> S,
        TIME |-> T,
        demand |-> [p \in S \X T |-> scen[p[1]][p[2] + 1]],
        cost_of_wind |-> cost_of_wind,
        cost_of_solar |-> cost_of_solar,
        obj_divisor |-> n,
        obj_max_term |-> term]

\* Every way a call build_two_stage_model(data_df, num_scenarios, alpha_cvar)
\* can end.  alpha_cvar is not read.
build_outcomes(df, n, alpha) ==
    IF n = 0
    THEN {[error |-> "ZeroDivisionError", demand_scenarios |-> <<>>,
           model |-> NoModel]}
    ELSE LET chunk_size == PyFloorDiv(Len(df), n)
             scen == build_demand_scenarios(df, n, chunk_size)
         IN {[error |-> mx.error,
              demand_scenarios |-> scen,
              model |-> IF mx.error = "none"
                        THEN make_model(scen, n, chunk_size, mx.term)
                        ELSE NoModel] : mx \in python_max(n)}

build_two_stage_model ==
    /\ pc = "start"
    /\ \E o \in build_outcomes(data_df, num_scenarios, alpha_cvar) :
          /\ demand_scenarios' = o.demand_scenarios
          /\ model' = o.model
          /\ error' = o.error
          /\ pc' = IF o.error = "none" THEN "built" ELSE "failed"
    /\ UNCHANGED <<data_df, num_scenarios, alpha_cvar, solver_calls, results,
                   values, values_read, report>>

----------------------------------------------------------------------------
\* The linear program of build_two_stage_model.  An assignment x gives every
\* variable of the model a value:
\*   x.wind_capacity, x.solar_capacity, x.t_cvar           (scalars)
\*   x.gen_wind, x.gen_solar, x.load_shed                  (on SCENARIOS x TIME)
\*   x.excess_cost                                         (on SCENARIOS)

\* domain=NonNegativeReals on every Var
NonNegativeReals(m, x) ==
    /\ x.wind_capacity >= 0
    /\ x.solar_capacity >= 0
    /\ x.t_cvar >= 0
    /\ \A p \in m.SCENARIOS \X m.TIME :
          x.gen_wind[p] >= 0 /\ x.gen_solar[p] >= 0 /\ x.load_shed[p] >= 0
    /\ \A s \in m.SCENARIOS : x.excess_cost[s] >= 0

wind_gen_limit_rule(m, x, s, t) == x.gen_wind[<<s, t>>] <= x.wind_capacity

solar_gen_limit_rule(m, x, s, t) == x.gen_solar[<<s, t>>] <= x.solar_capacity

demand_rule_no_shed(m, x, s, t) ==
    m.demand[<<s, t>>] <= x.gen_wind[<<s, t>>] + x.gen_solar[<<s, t>>]

demand_rule(m, x, s, t) ==
    m.demand[<<s, t>>] <=
        x.gen_wind[<<s, t>>] + x.gen_solar[<<s, t>>] + x.load_shed[<<s, t>>]

time_cost(m, x, s) ==
    SumOver([t \in m.TIME |-> x.load_shed[<<s, t>>] * penalty_of_load_shed],
            m.TIME)

invest_cost(m, x) ==
    x.wind_capacity * m.cost_of_wind + x.solar_capacity * m.cost_of_solar

scenario_cost_rule(m, x, s) ==
    x.excess_cost[s] >= invest_cost(m, x) + time_cost(m, x, s)

cvar_constraint_rule(m, x, s) == x.excess_cost[s] - x.t_cvar <= 0

\* Every constraint of the model except cvar_constraint.
SatisfiesWithoutCvar(m, x) ==
    /\ NonNegativeReals(m, x)
    /\ \A s \in m.SCENARIOS : \A t \in m.TIME :
          /\ wind_gen_limit_rule(m, x, s, t)
          /\ solar_gen_limit_rule(m, x, s, t)
          /\ demand_rule(m, x, s, t)
    /\ \A s \in m.SCENARIOS : scenario_cost_rule(m, x, s)

Satisfies(m, x) ==
    /\ SatisfiesWithoutCvar(m, x)
    /\ \A s \in m.SCENARIOS : cvar_constraint_rule(m, x, s)

obj_expr_with_t_cvar(m, x) ==
    lambda_risk_den * SumOver(x.excess_cost, m.SCENARIOS)
        + lambda_risk_num * m.obj_divisor * x.t_cvar

\* model.obj.expr(): avg_cost + lambda_risk * max_cost at x, as a numerator
\* over obj_divisor * lambda_risk_den.
obj_expr(m, x) ==
    lambda_risk_den * SumOver(x.excess_cost, m.SCENARIOS)
        + lambda_risk_num * m.obj_divisor * x.excess_cost[m.obj_max_term]

----------------------------------------------------------------------------
\* The external solver behind solver.solve(model, tee=False).  Its answer is
\* drawn from a bounded family of trial assignments: capacities on the demand
\* grid, one dispatch mode applied at every (s, t), each excess_cost[s] at its
\* cost-accounting bound plus a slack, t_cvar at the largest excess_cost plus
\* a slack.  The model's own constraints decide which trials are feasible.

DispatchModes == {"wind_first", "solar_first", "shed_all", "no_shed"}

dispatch(mode, w, sol, d) ==
    CASE mode = "wind_first" ->
            LET gw == Min2(w, d)
                gs == Min2(sol, d - gw)
            IN [gen_wind |-> gw, gen_solar |-> gs, load_shed |-> d - gw - gs]
      [] mode = "solar_first" ->
            LET gs == Min2(sol, d)
                gw == Min2(w, d - gs)
            IN [gen_wind |-> gw, gen_solar |-> gs, load_shed |-> d - gw - gs]
      [] mode = "shed_all" ->
            [gen_wind |-> 0, gen_solar |-> 0, load_shed |-> d]
      [] OTHER ->
            [gen_wind |-> Min2(w, d), gen_solar |-> Min2(sol, d - Min2(w, d)),
             load_shed |-> 0]

solver_trial(m, w, sol, mode, eslack, tslack) ==
    LET idx == m.SCENARIOS \X m.TIME
        disp == [p \in idx |-> dispatch(mode, w, sol, m.demand[p])]
        x0 == [wind_capacity |-> w,
               solar_capacity |-> sol,
               gen_wind |-> [p \in idx |-> disp[p].gen_wind],
               gen_solar |-> [p \in idx |-> disp[p].gen_solar],
               load_shed |-> [p \in idx |-> disp[p].load_shed],
               excess_cost |-> [s \in m.SCENARIOS |-> 0],
               t_cvar |-> 0]
        ec == [s \in m.SCENARIOS |->
                  invest_cost(m, x0) + time_cost(m, x0, s) + eslack[s]]
    IN [x0 EXCEPT !.excess_cost = ec,
                  !.t_cvar = MaxOf({ec[s] : s \in m.SCENARIOS} \cup {0}) + tslack]

solver_trials(m) ==
    {solver_trial(m, w, sol, mode, eslack, tslack) :
        w \in DemandValues, sol \in DemandValues, mode \in DispatchModes,
        eslack \in [m.SCENARIOS -> SlackValues], tslack \in SlackValues}

feasible_points(m) == {x \in solver_trials(m) : Satisfies(m, x)}

optimal_points(m) ==
    LET F == feasible_points(m)
        best == MinOf({obj_expr(m, x) : x \in F})
    IN {x \in F : obj_expr(m, x) = best}

\* What one solver.solve call can return: a termination condition and the
\* values it loads.  "infeasible" is reported only for a model with no
\* feasible point; the objective is bounded below on the nonnegative
\* variables, so "unbounded" is never reported.
solver_outcomes(m) ==
    LET F == feasible_points(m)
    IN {[termination_condition |-> "optimal", values |-> x] :
            x \in optimal_points(m)}
       \cup {[termination_condition |-> "feasible", values |-> x] : x \in F}
       \cup {[termination_condition |-> "error", values |-> NoValues]}
       \cup (IF F = {}
             THEN {[termination_condition |-> "infeasible", values |-> NoValues]}
             ELSE {})

solve_model_retry ==
    /\ pc = "built"
    /\ \E o \in solver_outcomes(model) :
          /\ results' = [termination_condition |-> o.termination_condition]
          /\ values' = o.values
          /\ solver_calls' =
                IF o.termination_condition \in {"optimal", "feasible"}
                THEN solver_calls + 1 ELSE solver_calls + 2
    /\ pc' = "solved"
    /\ UNCHANGED <<data_df, num_scenarios, alpha_cvar, demand_scenarios, model,
                   error, values_read, report>>

\* solve_model: one solver.solve call; the termination condition is printed
\* and (model, results) returned, whatever the condition.
solve_model ==
    /\ pc = "built"
    /\ \E o \in solver_outcomes(model) :
          /\ results' = [termination_condition |-> o.termination_condition]
          /\ values' = o.values
    /\ solver_calls' = solver_calls + 1
    /\ pc' = "solved"
    /\ UNCHANGED <<data_df, num_scenarios, alpha_cvar, demand_scenarios, model,
                   error, values_read, report>>

\* main, after solve_model returned: the values are read and printed without
\* looking at results.  Variables the solver loaded no value into read as
\* None, and model.obj.expr() then raises ValueError.
main_report ==
    /\ pc = "solved"
    /\ values_read' = TRUE
    /\ IF values # NoValues
       THEN /\ report' = [wind_capacity |-> values.wind_capacity,
                          solar_capacity |-> values.solar_capacity,
                          scenario_costs |-> values.excess_cost,
                          objective_value |-> obj_expr(model, values)]
            /\ error' = "none"
            /\ pc' = "done"
       ELSE /\ report' = [wind_capacity |-> "None",
                          solar_capacity |-> "None",
                          scenario_costs |-> [s \in model.SCENARIOS |-> "None"]]
            /\ error' = "ValueError"
            /\ pc' = "failed"
    /\ UNCHANGED <<data_df, num_scenarios, alpha_cvar, demand_scenarios, model,
                   solver_calls, results, values>>

----------------------------------------------------------------------------
\* Initial states: the arguments of one run.

InitWith(series) ==
    /\ pc = "start"
    /\ data_df \in series
    /\ num_scenarios \in NumScenariosValues
    /\ alpha_cvar \in AlphaValues
    /\ demand_scenarios = <<>>
    /\ model = NoModel
    /\ error = "none"
    /\ solver_calls = 0
    /\ results = NoResults
    /\ values = NoValues
    /\ values_read = FALSE
    /\ report = NoReport

InitBuild == InitWith(SeriesUpTo(MaxLenBuild))

NextBuild == build_two_stage_model

SpecBuild == InitBuild /\ [][NextBuild]_vars

Init == InitWith(SeriesUpTo(MaxLen))

Next == build_two_stage_model \/ solve_model \/ main_report

Spec == Init /\ [][Next]_vars

----------------------------------------------------------------------------
\* Properties.

Range(f) == {f[k] : k \in DOMAIN f}

Started == pc # "start"

ChunkSize == PyFloorDiv(Len(data_df), num_scenarios)

\* C1: for a series of length L and 1 <= N <= L, scenario construction
\* yields exactly N scenarios of length T = floor(L/N); scenario s holds the
\* series elements at source indices s*T .. (s+1)*T-1 in order; the blocks
\* are pairwise disjoint and the last L mod N elements are in no scenario.
C1_ScenariosAreContiguousBlocks ==
    (Started /\ 1 <= num_scenarios /\ num_scenarios <= Len(data_df)) =>
        LET L == Len(data_df)
            N == num_scenarios
            T == L \div N
            rows(s) == Range(scenario_rows(data_df, s, T))
        IN /\ DOMAIN demand_scenarios = 0..(N - 1)
           /\ \A s \in 0..(N - 1) :
                 /\ demand_scenarios[s] = [k \in 1..T |-> data_df[s * T + k]]
                 /\ scenario_rows(data_df, s, T) = [k \in 1..T |-> s * T + k - 1]
           /\ \A s1, s2 \in 0..(N - 1) : s1 # s2 => rows(s1) \cap rows(s2) = {}
           /\ (0..(L - 1)) \ UNION {rows(s) : s \in 0..(N - 1)} = (N * T)..(L - 1)
           /\ L - N * T = L % N

C1_Witness ==
    /\ Started
    /\ Len(data_df) = 5
    /\ num_scenarios = 2
    /\ model # NoModel
    /\ demand_scenarios[0] # demand_scenarios[1]

\* C2: scenario construction ends in ConfigurationError, and returns no
\* model, whenever N <= 0 or T = floor(L/N) = 0.
C2_BadScenarioCountIsConfigurationError ==
    (Started /\ (num_scenarios <= 0 \/ ChunkSize = 0)) =>
        (error = "ConfigurationError" /\ model = NoModel)

AlphaInOpenUnitInterval(a) == 0 < a /\ a < 100

\* The scenario arguments are valid: N >= 1 and at least one time point per
\* scenario.
ValidScenarioArguments ==
    1 <= num_scenarios /\ num_scenarios <= Len(data_df)

\* C3: for alpha_cvar outside (0,1) the build fails with ConfigurationError
\* and the solver is never invoked.  Stated for runs whose scenario arguments
\* are valid, so that alpha_cvar is the only invalid argument.
C3_BadAlphaIsConfigurationError ==
    (Started /\ ValidScenarioArguments /\ ~AlphaInOpenUnitInterval(alpha_cvar))
        => (error = "ConfigurationError" /\ model = NoModel /\ solver_calls = 0)

SolveSucceeded ==
    /\ results # NoResults
    /\ results.termination_condition \in {"optimal", "feasible"}

\* C4: variable values and the objective value are read only after a solve
\* that ended Optimal or Feasible; after any other status they are not read
\* and extraction ends in PreconditionViolation with no result record.
\* Stated for runs whose arguments are all valid.
C4_ValuesReadOnlyAfterSuccessfulSolve ==
    (ValidScenarioArguments /\ AlphaInOpenUnitInterval(alpha_cvar)) =>
        /\ values_read => SolveSucceeded
        /\ (pc \in {"done", "failed"} /\ results # NoResults /\ ~SolveSucceeded)
              => (error = "PreconditionViolation" /\ report = NoReport)

\* The assignment that sheds all demand: no capacity, no generation.
ShedAll(m) ==
    solver_trial(m, 0, 0, "shed_all", [s \in m.SCENARIOS |-> 0], 0)

WellFormedModel ==
    /\ model # NoModel
    /\ model.SCENARIOS # {}
    /\ model.TIME # {}
    /\ \A p \in model.SCENARIOS \X model.TIME : model.demand[p] >= 0

\* C5: for well-formed input (N >= 1, T >= 1) with nonnegative demand the
\* constraint system has a satisfying assignment (shedding absorbs all
\* demand), and a solve never returns Infeasible.
C5_AlwaysFeasible ==
    WellFormedModel =>
        /\ pc = "built" =>
              /\ Satisfies(model, ShedAll(model))
              /\ ShedAll(model) \in feasible_points(model)
        /\ results # NoResults => results.termination_condition # "infeasible"

C5_Witness ==
    /\ pc = "solved"
    /\ WellFormedModel
    /\ num_scenarios >= 2
    /\ \E p \in model.SCENARIOS \X model.TIME : model.demand[p] > 0
    /\ results.termination_condition = "optimal"

\* C6: the objective of the built model equals, at every assignment,
\* mean_s excess_cost[s] + lambda_risk * max_s excess_cost[s] (both sides as
\* numerators over num_scenarios * 10).  Stated at the assignments an
\* Optimal solve of a run with valid arguments returns.
C6_ObjectiveIsMeanPlusLambdaMax ==
    (/\ ValidScenarioArguments
     /\ AlphaInOpenUnitInterval(alpha_cvar)
     /\ values # NoValues
     /\ results.termination_condition = "optimal") =>
        obj_expr(model, values) =
            lambda_risk_den * SumOver(values.excess_cost, model.SCENARIOS)
              + lambda_risk_num * num_scenarios
                  * MaxOf(Range(values.excess_cost))

\* C9: one call of solve_model invokes the solver exactly once whatever the
\* termination status, raises nothing, and returns the model with that status.
C9_SolveOnceAndSurfaceStatus ==
    /\ solver_calls <= 1
    /\ pc = "solved" =>
          /\ solver_calls = 1
          /\ error = "none"
          /\ results.termination_condition
                \in {"optimal", "feasible", "infeasible", "unbounded", "error"}
          /\ model \in {o.model : o \in build_outcomes(data_df, num_scenarios,
                                                       alpha_cvar)}
          /\ (values = NoValues) = ~SolveSucceeded

C9_Witness ==
    /\ pc = "solved"
    /\ results.termination_condition = "error"
    /\ solver_calls = 1

WithoutTCvar(X) ==
    {[wind_capacity |-> x.wind_capacity, solar_capacity |-> x.solar_capacity,
      gen_wind |-> x.gen_wind, gen_solar |-> x.gen_solar,
      load_shed |-> x.load_shed, excess_cost |-> x.excess_cost] : x \in X}

\* The optimal points of the model with cvar_constraint removed.
optimal_points_without_cvar(m) ==
    LET F == {x \in solver_trials(m) : SatisfiesWithoutCvar(m, x)}
        best == MinOf({obj_expr(m, x) : x \in F})
    IN {x \in F : obj_expr(m, x) = best}

====
